---------------------------- MODULE Spec2Model ----------------------------
(***************************************************************************)
(* Model of the GitHub repository collector (repositoryCollector):        *)
(* CollectMetadata, Collect, the retried per-organization traversal        *)
(* collectRepositories, and the per-repository enrichment collectExtraData *)
(* with its stages.                                                        *)
(***************************************************************************)
EXTENDS Integers, Sequences, FiniteSets, Bags

(***************************************************************************)
(* Bounds of the model.                                                    *)
(***************************************************************************)
\* organizations the token can see: 1..NumOrgs
NumOrgs == 2
\* pages of the largest repository list
MaxPages == 2
\* repositories per page
PageSize == 1
\* failed repository-page queries the transport injects in one run
MaxFaults == 5
\* pages of a repository's webhook list
MaxHookPages == 2

(***************************************************************************)
(* Program constants.                                                      *)
(***************************************************************************)
\* utils.Retry(..., 5, ...)
RetryCap == 5
\* var totalCount int32: the largest int32
MaxInt32 == 2147483647

VARIABLES
    world,          \* what the remote platform answers in this run (fixed)
    cpc,            \* Collect's closure: "idle", "spawned", "returned"
    discovery,      \* Collect's CollectOrganizations: "none", "ok", "failed"
    closed,         \* wrappedCollection closed the output channels
    org,            \* per organization: the retried traversal unit
    faults,         \* failed repository-page queries so far
    queried,        \* a repository-page query has been issued
    units,          \* bag of running item units
    emitted,        \* bag of entities sent on the collected channel
    missingPerms,   \* bag of MissingPermission records issued
    apiCalls,       \* bag of <<repository name, REST call>> made
    totalChanges,   \* number of totalCollectionChange calls
    processed,      \* number of collectionChangeByOne calls
    lost,           \* an item unit died (panic) before finishing
    mpc,            \* CollectMetadata: "idle", "running", "returned"
    mdiscovery,     \* CollectMetadata's CollectOrganizations: "none", "ok", "failed"
    munit,          \* per organization: the count unit of CollectMetadata
    totalCount,     \* CollectMetadata's shared local totalCount (int32)
    countQueried,   \* a count query has been issued
    metadata        \* the Metadata returned (TotalEntities), -1 before return

vars == <<world, cpc, discovery, closed, org, faults, queried, units, emitted,
          missingPerms, apiCalls, totalChanges, processed, lost, mpc, mdiscovery,
          munit, totalCount, countQueried, metadata>>

collectVars == <<cpc, discovery, closed, org, faults, queried, units, emitted, missingPerms,
                 apiCalls, totalChanges, processed, lost>>

metaVars == <<mpc, mdiscovery, munit, totalCount, countQueried, metadata>>

(***************************************************************************)
(* The remote platform (the transport's answers).                          *)
(***************************************************************************)
Orgs == 1 .. NumOrgs

\* organization o lists min(o, MaxPages) pages of repositories
NumPages(o) == IF o < MaxPages THEN o ELSE MaxPages

PageNos(o) == 1 .. NumPages(o)

\* PageInfo.HasNextPage of page p of organization o
HasNextPage(o, p) == p < NumPages(o)

\* names of the nodes of page p of organization o: pages do not overlap
PageNodes(o, p) == [i \in 1 .. PageSize |-> <<o, p, i>>]

\* repositories(first: 1).TotalCount of organization o
TotalCountOf(o) == NumPages(o) * PageSize

\* outcomes of one page of Repositories.ListHooks
HookPageOutcomes == {"ok", "e404", "eOther", "eNoResp"}

\* a webhook listing: pages answer "ok" until, possibly, the last one fails
HookPlans ==
    {h \in UNION {[1 .. n -> HookPageOutcomes] : n \in 1 .. MaxHookPages} :
        \A k \in 1 .. Len(h) - 1 : h[k] = "ok"}

\* outcomes of Repositories.GetBranchProtection
BPOutcomes == {"ok", "NotFound", "NotProtected", "eOther"}

\* DefaultBranchRef as the repository query returned it
BranchRefs == {"nil", "noRule", "rule"}

Scenarios ==
    {s \in [free : BOOLEAN, private : BOOLEAN, branch : BranchRefs,
            vuln : {"ok", "err"}, hooks : HookPlans, collab : {"ok", "err"},
            bp : BPOutcomes, scorecardEnabled : BOOLEAN, score : {"ok", "err"}] :
        \* answers nobody asks for are fixed
        /\ (s.branch # "noRule" \/ (s.private /\ s.free)) => s.bp = "ok"
        /\ ~s.scorecardEnabled => s.score = "ok"}

\* the scenarios explored together with several organizations
CoreScenarios ==
    {s \in Scenarios :
        /\ s.vuln = "ok" /\ s.collab = "ok" /\ ~s.scorecardEnabled
        /\ s.branch = "noRule"
        /\ s.free = s.private
        /\ s.hooks = <<"ok">>
        /\ ~s.free => s.bp = "NotFound"}

Worlds ==
    {w \in [orgs : {1 .. n : n \in 1 .. NumOrgs}, sc : Scenarios] :
        Cardinality(w.orgs) > 1 => w.sc \in CoreScenarios}


(***************************************************************************)
(* Collected data.                                                         *)
(***************************************************************************)
\* ghcollected.ExtendedOrg of organization o
ExtendedOrg(o, sc) == [login |-> o, free |-> sc.free]

\* org.IsFree()
IsFree(eorg) == eorg.free

\* node i of page p of organization o, as the repository query returned it
Node(o, p, i, sc) ==
    [name |-> PageNodes(o, p)[i], isPrivate |-> sc.private, branch |-> sc.branch]

\* ghcollected.Repository{Repository: repository}: every enrichment field absent
NewRepository(node) ==
    [name |-> node.name, isPrivate |-> node.isPrivate, branch |-> node.branch,
     vuln |-> FALSE, hooks |-> [present |-> FALSE, pages |-> 0], collab |-> FALSE,
     noBPPerm |-> FALSE, scorecard |-> FALSE]

\* fullRepoName(org, repo name)
fullRepoName(login, name) == <<login, name>>

\* newMissingPermission(permission, entity, effect, namespace.Repository)
newMissingPermission(perm, entity, effect) ==
    [perm |-> perm, entity |-> entity, effect |-> effect, ns |-> "repository"]

orgIsFreeEffect ==
    "Branch protection cannot be collected because the organization is in free plan"

noBranchProtectionEffect == "Cannot read repository branch protection information"

hooksEffect == "Cannot read repository webhooks"

(***************************************************************************)
(* Enrichment stages.  Each returns the repository, whether it returned an *)
(* error, the MissingPermission records it issued, the calls it made in order *)
(* and whether it panicked.                                                *)
(***************************************************************************)
StageResult(repo, err, perms, calls, panic) ==
    [repo |-> repo, err |-> err, perms |-> perms, calls |-> calls, panic |-> panic]

getVulnerabilityAlerts(repo, login, sc) ==
    IF sc.vuln # "ok"
    THEN StageResult(repo, TRUE, <<>>, <<"vuln">>, FALSE)
    ELSE StageResult([repo EXCEPT !.vuln = TRUE], FALSE, <<>>, <<"vuln">>, FALSE)

\* the page callback of getRepositoryHooks driven over the pages of the listing,
\* from page k on, with `result` pages accumulated so far
RECURSIVE ListHooksPages(_, _, _)
ListHooksPages(h, k, result) ==
    IF k > Len(h)
    THEN [err |-> FALSE, result |-> result, status404 |-> FALSE, panic |-> FALSE]
    ELSE IF h[k] = "ok"
    THEN ListHooksPages(h, k + 1, result + 1)
    ELSE IF h[k] = "eNoResp"
    \* resp is nil: resp.Response dereferences a nil pointer
    THEN [err |-> TRUE, result |-> result, status404 |-> FALSE, panic |-> TRUE]
    ELSE [err |-> TRUE, result |-> result, status404 |-> h[k] = "e404", panic |-> FALSE]

getRepositoryHooks(repo, login, sc) ==
    LET r == ListHooksPages(sc.hooks, 1, 0)
        perms == IF r.status404
                 THEN <<newMissingPermission("RepoHookRead",
                                             fullRepoName(login, repo.name), hooksEffect)>>
                 ELSE <<>>
    IN  IF r.err
        THEN StageResult(repo, TRUE, perms, <<"hooks">>, r.panic)
        ELSE StageResult([repo EXCEPT !.hooks = [present |-> TRUE, pages |-> r.result]],
                         FALSE, perms, <<"hooks">>, FALSE)

getRepoCollaborators(repo, login, sc) ==
    IF sc.collab # "ok"
    THEN StageResult(repo, TRUE, <<>>, <<"collab">>, FALSE)
    ELSE StageResult([repo EXCEPT !.collab = TRUE], FALSE, <<>>, <<"collab">>, FALSE)

\* (mutation) the message is compared with another text: nothing matches
isNoPermErrNever(bpErr) == FALSE

\* isNoPermErr: an ErrorResponse whose message is "Not Found"
isNoPermErr(bpErr) == bpErr = "NotFound"

\* err == github.ErrBranchNotProtected
isBranchNotProtected(bpErr) == bpErr = "NotProtected"

\* (mutation) "branch not protected" is taken for a missing permission too
ClassifyBPErrorAllNoPerm(repository, bpErr) ==
    IF isNoPermErr(bpErr) \/ isBranchNotProtected(bpErr)
    THEN StageResult([repository EXCEPT !.noBPPerm = TRUE], FALSE, <<>>, <<"bp">>, FALSE)
    ELSE StageResult(repository, TRUE, <<>>, <<"bp">>, FALSE)

\* the switch of fixBranchProtectionInfo on the error of GetBranchProtection
ClassifyBPError(repository, bpErr) ==
    IF isNoPermErr(bpErr)
    THEN StageResult([repository EXCEPT !.noBPPerm = TRUE], FALSE, <<>>, <<"bp">>, FALSE)
    ELSE IF isBranchNotProtected(bpErr)
    THEN StageResult(repository, FALSE, <<>>, <<"bp">>, FALSE)
    ELSE StageResult(repository, TRUE, <<>>, <<"bp">>, FALSE)

\* (mutation) only a missing default branch returns early: a rule already
\* collected does not
fixBranchProtectionInfoNoRuleCheck(repository, login, sc) ==
    IF repository.branch = "nil"
    THEN StageResult(repository, FALSE, <<>>, <<>>, FALSE)
    ELSE IF sc.bp = "ok"
    THEN StageResult(repository, FALSE, <<>>, <<"bp">>, FALSE)
    ELSE ClassifyBPError(repository, sc.bp)

fixBranchProtectionInfo(repository, login, sc) ==
    IF repository.branch = "nil"
    THEN StageResult(repository, FALSE, <<>>, <<>>, FALSE)
    ELSE IF repository.branch = "rule"
    THEN StageResult(repository, FALSE, <<>>, <<>>, FALSE)
    ELSE IF sc.bp = "ok"
    THEN StageResult(repository, FALSE, <<>>, <<"bp">>, FALSE)
    ELSE ClassifyBPError(repository, sc.bp)

\* the branch-protection step of collectExtraData, with its plan gate
BranchProtectionStage(eorg, repo, sc) ==
    IF ~repo.isPrivate \/ ~IsFree(eorg)
    THEN fixBranchProtectionInfo(repo, eorg.login, sc)
    ELSE StageResult(repo, FALSE,
                     <<newMissingPermission("RepoAdmin", fullRepoName(eorg.login, repo.name),
                                            orgIsFreeEffect)>>,
                     <<>>, FALSE)

\* the scorecard step of collectExtraData
ScorecardStage(repo, sc) ==
    IF sc.scorecardEnabled
    THEN IF sc.score = "ok"
         THEN StageResult([repo EXCEPT !.scorecard = TRUE], FALSE, <<>>, <<"score">>, FALSE)
         ELSE StageResult([repo EXCEPT !.scorecard = FALSE], TRUE, <<>>, <<"score">>, FALSE)
    ELSE StageResult(repo, FALSE, <<>>, <<>>, FALSE)

\* collectExtraData: the stages in order; every error is logged and dropped.
\* A panic ends the item unit where it happens.
collectExtraData(eorg, node, sc) ==
    LET r0 == NewRepository(node)
        s1 == getVulnerabilityAlerts(r0, eorg.login, sc)
        s2 == getRepositoryHooks(s1.repo, eorg.login, sc)
        s3 == getRepoCollaborators(s2.repo, eorg.login, sc)
        s4 == BranchProtectionStage(eorg, s3.repo, sc)
        s5 == ScorecardStage(s4.repo, sc)
    IN  IF s2.panic
        THEN [repo |-> s2.repo, perms |-> s1.perms \o s2.perms,
              calls |-> s1.calls \o s2.calls, panic |-> TRUE]
        ELSE [repo |-> s5.repo,
              perms |-> s1.perms \o s2.perms \o s3.perms \o s4.perms \o s5.perms,
              calls |-> s1.calls \o s2.calls \o s3.calls \o s4.calls \o s5.calls,
              panic |-> FALSE]

\* checkMissingPermissions
checkMissingPermissions(repo, entityName) ==
    IF repo.noBPPerm
    THEN <<newMissingPermission("RepoAdmin", entityName, noBranchProtectionEffect)>>
    ELSE <<>>


(***************************************************************************)
(* Helpers on bags and sequences.                                          *)
(***************************************************************************)
RECURSIVE SeqToBag(_)
SeqToBag(q) == IF q = <<>> THEN EmptyBag ELSE SetToBag({Head(q)}) (+) SeqToBag(Tail(q))

RECURSIVE SumCopies(_, _)
SumCopies(B, S) ==
    IF S = {} THEN 0
    ELSE LET x == CHOOSE y \in S : TRUE IN CopiesIn(x, B) + SumCopies(B, S \ {x})

\* the number of elements of bag B, with their copies, that satisfy P
CountIn(B, P(_)) == SumCopies(B, {x \in BagToSet(B) : P(x)})

\* bag B with every element x replaced by F(x)
MapBag(B, F(_)) ==
    LET T == {F(x) : x \in BagToSet(B)}
    IN  [y \in T |-> SumCopies(B, {x \in BagToSet(B) : F(x) = y})]

\* int32 arithmetic: totalCount += int32(n)
\* (for b >= 0; a sum above MaxInt32 wraps around)
Int32Add(a, b) ==
    IF a > MaxInt32 - b
    THEN (a - MaxInt32 - 1) + (b - MaxInt32 - 1)
    ELSE a + b

(***************************************************************************)
(* utils.Retry: re-invoke the operation until it returns no error, or says *)
(* not to retry, or the attempts are used up.                              *)
(***************************************************************************)
\* (mutation) the operation tells Retry not to retry
RetryOperationNoRetry(err) == [retry |-> FALSE, err |-> err]

\* the operation Collect hands to Retry: func() (bool, error) { return true, err }
RetryOperation(err) == [retry |-> TRUE, err |-> err]

\* what Retry does after invocation number i returned r:
\* "ok" (return nil), "again" (invoke once more) or "err" (return the last error)
RetryDecision(i, r, maxRetries) ==
    IF ~r.err THEN "ok"
    ELSE IF r.retry /\ i < maxRetries THEN "again"
    ELSE "err"

(***************************************************************************)
(* Initial state: the collector as constructed, nothing called yet.        *)
(***************************************************************************)
IdleOrg == [pc |-> "idle", invocations |-> 0, failures |-> 0, cursor |-> 0,
            result |-> "none"]

IdleCount == [pc |-> "idle", read |-> 0, ok |-> FALSE]

\* the collector as newCollector built it
Constructed ==
    /\ cpc = "idle"
    /\ discovery = "none"
    /\ closed = FALSE
    /\ org = [o \in Orgs |-> IdleOrg]
    /\ faults = 0
    /\ queried = FALSE
    /\ units = EmptyBag
    /\ emitted = EmptyBag
    /\ missingPerms = EmptyBag
    /\ apiCalls = EmptyBag
    /\ totalChanges = 0
    /\ processed = 0
    /\ lost = FALSE
    /\ mpc = "idle"
    /\ mdiscovery = "none"
    /\ munit = [o \in Orgs |-> IdleCount]
    /\ totalCount = 0
    /\ countQueried = FALSE
    /\ metadata = -1

Init == world \in Worlds /\ Constructed

(***************************************************************************)
(* Collect.                                                                *)
(***************************************************************************)
\* (mutation) the error of CollectOrganizations is logged but not returned on
CollectOnDiscoveryErrorGoOn ==
    /\ cpc' = "spawned"
    /\ totalChanges' = totalChanges + 1
    /\ org' = [o \in Orgs |-> IF o \in world.orgs
                                THEN [IdleOrg EXCEPT !.pc = "start"] ELSE IdleOrg]

\* what Collect's closure does when CollectOrganizations returned an error
CollectOnDiscoveryError ==
    /\ cpc' = "returned"
    /\ UNCHANGED <<org, totalChanges>>

\* CollectOrganizations fails: log and return
CollectDiscoveryFails ==
    /\ cpc = "idle" /\ mpc = "idle"
    /\ discovery' = "failed"
    /\ CollectOnDiscoveryError
    /\ UNCHANGED <<world, closed, faults, queried, units, emitted, missingPerms,
                   apiCalls, processed, lost>>
    /\ UNCHANGED metaVars

\* CollectOrganizations succeeds: totalCollectionChange(0), one retried unit per org
CollectSpawn ==
    /\ cpc = "idle" /\ mpc = "idle"
    /\ discovery' = "ok"
    /\ cpc' = "spawned"
    /\ totalChanges' = totalChanges + 1
    /\ org' = [o \in Orgs |-> IF o \in world.orgs
                                THEN [IdleOrg EXCEPT !.pc = "start"] ELSE IdleOrg]
    /\ UNCHANGED <<world, closed, faults, queried, units, emitted, missingPerms,
                   apiCalls, processed, lost>>
    /\ UNCHANGED metaVars

\* (mutation) the cursor of the failed attempt is kept for the next one
InvokeResume(o) ==
    /\ org[o].pc = "start"
    /\ org' = [org EXCEPT ![o].pc = "query", ![o].invocations = @ + 1]
    /\ UNCHANGED <<world, cpc, discovery, closed, faults, queried, units, emitted, missingPerms,
                   apiCalls, totalChanges, processed, lost>>
    /\ UNCHANGED metaVars

\* Retry invokes collectRepositories: cursor nil, a fresh group waiter
Invoke(o) ==
    /\ org[o].pc = "start"
    /\ org' = [org EXCEPT ![o].pc = "query", ![o].cursor = 0,
                          ![o].invocations = @ + 1]
    /\ UNCHANGED <<world, cpc, discovery, closed, faults, queried, units, emitted, missingPerms,
                   apiCalls, totalChanges, processed, lost>>
    /\ UNCHANGED metaVars

\* (mutation) the item loop starts at the second node
SpawnItemsSkipFirst(o, p) ==
    SeqToBag([i \in 1 .. PageSize - 1 |->
                [org |-> o, page |-> p, idx |-> i + 1, live |-> TRUE, pc |-> "enrich",
                 repo |-> NewRepository(Node(o, p, i + 1, world.sc))]])

\* the item units the page unit of page p spawns, one per node
SpawnItems(o, p) ==
    SeqToBag([i \in 1 .. PageSize |->
                [org |-> o, page |-> p, idx |-> i, live |-> TRUE, pc |-> "enrich",
                 repo |-> NewRepository(Node(o, p, i, world.sc))]])

\* the page after cursor c (nil is 0)
PageAfter(c) == c + 1

\* (mutation) the loop waits for the page units spawned so far before it
\* queries the next page
QueryOKAfterJoin(o) ==
    /\ org[o].pc = "query"
    /\ \A u \in BagToSet(units) : ~(u.org = o /\ u.live)
    /\ LET p == PageAfter(org[o].cursor)
       IN  /\ units' = units (+) SpawnItems(o, p)
           /\ org' = IF HasNextPage(o, p)
                     THEN [org EXCEPT ![o].cursor = p]
                     ELSE [org EXCEPT ![o].cursor = p, ![o].pc = "wait"]
    /\ queried' = TRUE
    /\ UNCHANGED <<world, cpc, discovery, closed, faults, emitted, missingPerms,
                   apiCalls, totalChanges, processed, lost>>
    /\ UNCHANGED metaVars

\* the repository query succeeds: spawn the page unit, break or move the cursor
QueryOK(o) ==
    /\ org[o].pc = "query"
    /\ LET p == PageAfter(org[o].cursor)
       IN  /\ units' = units (+) SpawnItems(o, p)
           /\ org' = IF HasNextPage(o, p)
                     THEN [org EXCEPT ![o].cursor = p]
                     ELSE [org EXCEPT ![o].cursor = p, ![o].pc = "wait"]
    /\ queried' = TRUE
    /\ UNCHANGED <<world, cpc, discovery, closed, faults, emitted, missingPerms,
                   apiCalls, totalChanges, processed, lost>>
    /\ UNCHANGED metaVars

\* the units collectRepositories leaves behind when it returns an error:
\* it returns without gw.Wait(), so the page units already spawned run on
UnitsAfterError(o) ==
    LET Detach(u) == IF u.org = o THEN [u EXCEPT !.live = FALSE] ELSE u
    IN  MapBag(units, Detach)

\* (mutation) the failed page query is issued again by the loop itself
QueryFailsRetryPage(o) ==
    /\ org[o].pc = "query"
    /\ faults < MaxFaults
    /\ faults' = faults + 1
    /\ queried' = TRUE
    /\ org' = [org EXCEPT ![o].failures = @ + 1]
    /\ UNCHANGED <<world, cpc, discovery, closed, units, emitted, missingPerms,
                   apiCalls, totalChanges, processed, lost>>
    /\ UNCHANGED metaVars

\* the repository query fails: collectRepositories returns the error to Retry
QueryFails(o) ==
    /\ org[o].pc = "query"
    /\ faults < MaxFaults
    /\ faults' = faults + 1
    /\ queried' = TRUE
    /\ units' = UnitsAfterError(o)
    /\ LET d == RetryDecision(org[o].invocations, RetryOperation(TRUE), RetryCap)
       IN  org' = [org EXCEPT ![o].failures = @ + 1,
                              ![o].pc = IF d = "again" THEN "start" ELSE "done",
                              ![o].result = IF d = "again" THEN "none" ELSE d]
    /\ UNCHANGED <<world, cpc, discovery, closed, emitted, missingPerms,
                   apiCalls, totalChanges, processed, lost>>
    /\ UNCHANGED metaVars

\* (mutation) the page units never signal the group waiter: Wait returns only
\* when no page was fetched
PageUnitsDoneNoSignal(o) == org[o].cursor = 0

\* gw.Wait() of collectRepositories: every page unit of this call has returned
PageUnitsDone(o) == \A u \in BagToSet(units) : ~(u.org = o /\ u.live)

\* collectRepositories returns nil after gw.Wait(); Retry returns
WaitPages(o) ==
    /\ org[o].pc = "wait"
    /\ PageUnitsDone(o)
    /\ LET d == RetryDecision(org[o].invocations, RetryOperation(FALSE), RetryCap)
       IN  org' = [org EXCEPT ![o].pc = IF d = "again" THEN "start" ELSE "done",
                              ![o].result = IF d = "again" THEN "none" ELSE d]
    /\ UNCHANGED <<world, cpc, discovery, closed, faults, queried, units, emitted, missingPerms,
                   apiCalls, totalChanges, processed, lost>>
    /\ UNCHANGED metaVars

\* gw.Wait() of Collect: every organization's unit has returned
CollectWait ==
    /\ cpc = "spawned"
    /\ \A o \in world.orgs : org[o].pc = "done"
    /\ cpc' = "returned"
    /\ UNCHANGED <<world, discovery, closed, org, faults, queried, units, emitted, missingPerms,
                   apiCalls, totalChanges, processed, lost>>
    /\ UNCHANGED metaVars

\* wrappedCollection: the closure returned, the output channels are closed
Close ==
    /\ cpc = "returned" /\ ~closed
    /\ closed' = TRUE
    /\ UNCHANGED <<world, cpc, discovery, org, faults, queried, units, emitted, missingPerms,
                   apiCalls, totalChanges, processed, lost>>
    /\ UNCHANGED metaVars

(***************************************************************************)
(* Item units: enrich and record, emit, count.                             *)
(***************************************************************************)
\* collectExtraData, checkMissingPermissions, issueMissingPermissions
UnitEnrich(u) ==
    /\ BagIn(u, units) /\ u.pc = "enrich" /\ ~closed
    /\ LET eorg == ExtendedOrg(u.org, world.sc)
           r == collectExtraData(eorg, Node(u.org, u.page, u.idx, world.sc), world.sc)
           entityName == fullRepoName(eorg.login, r.repo.name)
       IN  /\ apiCalls' = apiCalls (+) SeqToBag([k \in 1 .. Len(r.calls) |-> <<r.repo.name, r.calls[k]>>])
           /\ IF r.panic
              THEN /\ missingPerms' = missingPerms (+) SeqToBag(r.perms)
                   /\ units' = units (-) SetToBag({u})
                   /\ lost' = TRUE
              ELSE /\ missingPerms' = missingPerms (+) SeqToBag(r.perms)
                                         (+) SeqToBag(checkMissingPermissions(r.repo, entityName))
                   /\ units' = (units (-) SetToBag({u}))
                                 (+) SetToBag({[u EXCEPT !.pc = "emit", !.repo = r.repo]})
                   /\ lost' = lost
    /\ UNCHANGED <<world, cpc, discovery, closed, org, faults, queried, emitted,
                   totalChanges, processed>>
    /\ UNCHANGED metaVars

\* (mutation) the item is counted as processed where it should be sent
UnitEmitCountsFirst(u) ==
    /\ BagIn(u, units) /\ u.pc = "emit" /\ ~closed
    /\ processed' = processed + 1
    /\ units' = (units (-) SetToBag({u})) (+) SetToBag({[u EXCEPT !.pc = "count"]})
    /\ UNCHANGED <<world, cpc, discovery, closed, org, faults, queried, emitted, missingPerms,
                   apiCalls, totalChanges, lost>>
    /\ UNCHANGED metaVars

\* collectData: the entity goes to the collected channel
UnitEmit(u) ==
    /\ BagIn(u, units) /\ u.pc = "emit" /\ ~closed
    /\ emitted' = emitted (+) SetToBag({[org |-> u.org, repo |-> u.repo]})
    /\ units' = (units (-) SetToBag({u})) (+) SetToBag({[u EXCEPT !.pc = "count"]})
    /\ UNCHANGED <<world, cpc, discovery, closed, org, faults, queried, missingPerms,
                   apiCalls, totalChanges, processed, lost>>
    /\ UNCHANGED metaVars

\* collectionChangeByOne, then the item unit returns
UnitCount(u) ==
    /\ BagIn(u, units) /\ u.pc = "count" /\ ~closed
    /\ processed' = processed + 1
    /\ units' = units (-) SetToBag({u})
    /\ UNCHANGED <<world, cpc, discovery, closed, org, faults, queried, emitted, missingPerms,
                   apiCalls, totalChanges, lost>>
    /\ UNCHANGED metaVars

\* an item unit still running after the channels were closed: its next send
\* is a send on a closed channel
UnitAfterClose(u) ==
    /\ BagIn(u, units) /\ closed
    /\ units' = units (-) SetToBag({u})
    /\ lost' = TRUE
    /\ UNCHANGED <<world, cpc, discovery, closed, org, faults, queried, emitted, missingPerms,
                   apiCalls, totalChanges, processed>>
    /\ UNCHANGED metaVars

(***************************************************************************)
(* CollectMetadata.                                                        *)
(***************************************************************************)
\* what CollectMetadata does when CollectOrganizations returned an error
MetadataOnDiscoveryError ==
    /\ mpc' = "returned"
    /\ metadata' = 0
    /\ UNCHANGED munit

\* CollectOrganizations fails: return Metadata{}
MetadataDiscoveryFails ==
    /\ mpc = "idle" /\ cpc = "idle"
    /\ mdiscovery' = "failed"
    /\ MetadataOnDiscoveryError
    /\ UNCHANGED <<world, totalCount, countQueried>>
    /\ UNCHANGED collectVars

\* CollectOrganizations succeeds: totalCount = 0, one count unit per organization
MetadataSpawn ==
    /\ mpc = "idle" /\ cpc = "idle"
    /\ mdiscovery' = "ok"
    /\ mpc' = "running"
    /\ totalCount' = 0
    /\ munit' = [o \in Orgs |-> IF o \in world.orgs
                                  THEN [IdleCount EXCEPT !.pc = "query"] ELSE IdleCount]
    /\ UNCHANGED <<world, countQueried, metadata>>
    /\ UNCHANGED collectVars

\* the count query of organization o fails: the unit returns
CountQueryFails(o) ==
    /\ munit[o].pc = "query"
    /\ munit' = [munit EXCEPT ![o].pc = "done"]
    /\ countQueried' = TRUE
    /\ UNCHANGED <<world, mpc, mdiscovery, totalCount, metadata>>
    /\ UNCHANGED collectVars

\* the count query succeeds; totalCount += n starts by loading totalCount
CountQueryOK(o) ==
    /\ munit[o].pc = "query"
    /\ munit' = [munit EXCEPT ![o].pc = "add", ![o].read = totalCount, ![o].ok = TRUE]
    /\ countQueried' = TRUE
    /\ UNCHANGED <<world, mpc, mdiscovery, totalCount, metadata>>
    /\ UNCHANGED collectVars

\* totalCount += n ends by storing the sum; the unit returns
CountAdd(o) ==
    /\ munit[o].pc = "add"
    /\ totalCount' = Int32Add(munit[o].read, TotalCountOf(o))
    /\ munit' = [munit EXCEPT ![o].pc = "done"]
    /\ UNCHANGED <<world, mpc, mdiscovery, countQueried, metadata>>
    /\ UNCHANGED collectVars

\* gw.Wait(), then return Metadata{TotalEntities: int(totalCount)}
MetadataReturn ==
    /\ mpc = "running"
    /\ \A o \in world.orgs : munit[o].pc = "done"
    /\ mpc' = "returned"
    /\ metadata' = totalCount
    /\ UNCHANGED <<world, mdiscovery, munit, totalCount, countQueried>>
    /\ UNCHANGED collectVars

(***************************************************************************)
(* The specification.                                                      *)
(***************************************************************************)
UnitStates == BagToSet(units)

Next ==
    \/ CollectDiscoveryFails
    \/ CollectSpawn
    \/ \E o \in Orgs : Invoke(o)
    \/ \E o \in Orgs : QueryOK(o)
    \/ \E o \in Orgs : QueryFails(o)
    \/ \E o \in Orgs : WaitPages(o)
    \/ CollectWait
    \/ Close
    \/ \E u \in UnitStates : UnitEnrich(u)
    \/ \E u \in UnitStates : UnitEmit(u)
    \/ \E u \in UnitStates : UnitCount(u)
    \/ \E u \in UnitStates : UnitAfterClose(u)
    \/ MetadataDiscoveryFails
    \/ MetadataSpawn
    \/ \E o \in Orgs : CountQueryFails(o)
    \/ \E o \in Orgs : CountQueryOK(o)
    \/ \E o \in Orgs : CountAdd(o)
    \/ MetadataReturn

Spec == Init /\ [][Next]_vars

\* the steps of Collect, of its traversals and of their units, enrichment apart
CollectNext ==
    \/ CollectDiscoveryFails
    \/ CollectSpawn
    \/ \E o \in Orgs : Invoke(o)
    \/ \E o \in Orgs : QueryOK(o)
    \/ \E o \in Orgs : QueryFails(o)
    \/ \E o \in Orgs : WaitPages(o)
    \/ CollectWait
    \/ Close
    \/ \E u \in UnitStates : UnitEmit(u)
    \/ \E u \in UnitStates : UnitCount(u)
    \/ \E u \in UnitStates : UnitAfterClose(u)

\* the enrichment step of some item unit
EnrichNext == \E u \in UnitStates : UnitEnrich(u)

\* ENABLED EnrichNext, written out: the guard of UnitEnrich holds of some unit
EnrichEnabled == \E u \in UnitStates : u.pc = "enrich" /\ ~closed

\* the scenarios of the runs followed to their end: every call succeeds, or
\* every enrichment call fails (the webhook listing with a 404 on its second
\* page, or without a response)
LiveScenarios ==
    {s \in Scenarios :
        /\ s.branch = "noRule" /\ ~s.free /\ ~s.private
        /\ \/ /\ s.vuln = "ok" /\ s.collab = "ok" /\ s.bp = "ok"
              /\ s.hooks = <<"ok">> /\ ~s.scorecardEnabled
           \/ /\ s.vuln = "err" /\ s.collab = "err" /\ s.bp = "eOther"
              /\ s.hooks \in {<<"ok", "e404">>, <<"eNoResp">>}
              /\ s.scorecardEnabled /\ s.score = "err"}

\* one organization, the one with the longest repository list
LiveWorlds == [orgs : {{NumOrgs}}, sc : LiveScenarios]

LiveInit == world \in LiveWorlds /\ Constructed

\* Every transport call returns and a goroutine that can run does run:
\* Collect does not stop while one of its steps is possible, and the
\* enrichment calls of an item unit return (weak fairness of EnrichNext,
\* with its enabling condition written out).
LiveSpec ==
    /\ LiveInit /\ [][Next]_vars
    /\ WF_vars(CollectNext)
    /\ (<>[]EnrichEnabled => []<><<EnrichNext>>_vars)


(***************************************************************************)
(* Vocabulary of the properties.                                           *)
(***************************************************************************)
\* the names of the repositories of organization o, over all its pages
ReposOf(o) == {PageNodes(o, p)[i] : p \in PageNos(o), i \in 1 .. PageSize}

AllRepos == UNION {ReposOf(o) : o \in world.orgs}

\* the part of bag B whose elements satisfy P
BagWhere(B, P(_)) == [x \in {y \in BagToSet(B) : P(y)} |-> B[x]]

\* how many times the repository was sent on the collected channel
EmittedCopies(name) == CountIn(emitted, LAMBDA e : e.repo.name = name)

EmittedOf(o) == BagWhere(emitted, LAMBDA e : e.org = o)

PermsOf(o) == BagWhere(missingPerms, LAMBDA m : m.entity[1] = o)

\* MissingPermission records about the repository, all or with one effect
PermCopies(name) == CountIn(missingPerms, LAMBDA m : m.entity[2] = name)

PermCopiesWith(name, effect) ==
    CountIn(missingPerms, LAMBDA m : m.entity[2] = name /\ m.effect = effect)

\* how many times the REST call was made for the repository
Calls(name, c) == CopiesIn(<<name, c>>, apiCalls)

\* how many item units of the repository are at pc
UnitsAt(name, pc) == CountIn(units, LAMBDA u : u.repo.name = name /\ u.pc = pc)

\* the run is over: output closed and no unit left
Finished == closed /\ units = EmptyBag

\* what one pass over the repository yields: collectExtraData and checkMissingPermissions
OnePass(o, name) ==
    LET eorg == ExtendedOrg(o, world.sc)
        r == collectExtraData(eorg, Node(name[1], name[2], name[3], world.sc), world.sc)
    IN  [panic |-> r.panic,
         entity |-> [org |-> o, repo |-> r.repo],
         perms |-> IF r.panic THEN r.perms
                   ELSE r.perms \o checkMissingPermissions(r.repo, fullRepoName(o, name))]

\* the result of a traversal of o that succeeds at once: one pass per repository
ImmediateEntities(o) ==
    SetToBag({OnePass(o, name).entity : name \in {n \in ReposOf(o) : ~OnePass(o, n).panic}})

RECURSIVE ImmediatePermsOver(_, _)
ImmediatePermsOver(o, S) ==
    IF S = {} THEN EmptyBag
    ELSE LET n == CHOOSE x \in S : TRUE
         IN  SeqToBag(OnePass(o, n).perms) (+) ImmediatePermsOver(o, S \ {n})

ImmediatePerms(o) == ImmediatePermsOver(o, ReposOf(o))

\* a traversal that succeeded on its first attempt has exactly the immediate result
ImmediateSuccessResult ==
    \A o \in world.orgs :
        (org[o].result = "ok" /\ org[o].failures = 0)
            => /\ EmittedOf(o) = ImmediateEntities(o)
               /\ PermsOf(o) = ImmediatePerms(o)

(***************************************************************************)
(* C1.  A traversal that fails N-1 times and succeeds on attempt N <= 5    *)
(* yields, when the run is over, the same merged result as one that        *)
(* succeeds at once: the same entities and the same MissingPermission      *)
(* records, with no copies left by the failed attempts.                    *)
(***************************************************************************)
C1_RetrySameResult ==
    \A o \in world.orgs :
        (closed /\ org[o].result = "ok")
            => /\ EmittedOf(o) = ImmediateEntities(o)
               /\ PermsOf(o) = ImmediatePerms(o)

\* no page of the webhook listing fails without a response
NoHookPanic == \A k \in 1 .. Len(world.sc.hooks) : world.sc.hooks[k] # "eNoResp"

(***************************************************************************)
(* C2.  A traversal that fails on every attempt up to the cap contributes  *)
(* no entity for its organization, also when the failing page is not the   *)
(* first; and the organizations whose traversal succeeded at once have     *)
(* every repository emitted when the run is over.                          *)
(***************************************************************************)
C2_ExhaustedYieldsNothing ==
    \A o \in world.orgs :
        org[o].result = "err"
            => /\ EmittedOf(o) = EmptyBag
               /\ \A o2 \in world.orgs \ {o} :
                    (closed /\ org[o2].result = "ok" /\ org[o2].failures = 0 /\ NoHookPanic)
                        => \A name \in ReposOf(o2) : EmittedCopies(name) = 1

\* every page of the webhook listing is answered
NoHookQueryFails == \A k \in 1 .. Len(world.sc.hooks) : world.sc.hooks[k] = "ok"

\* the items of pages 1 .. p of organization o
RECURSIVE SumPageItems(_, _)
SumPageItems(o, p) == IF p = 0 THEN 0 ELSE Len(PageNodes(o, p)) + SumPageItems(o, p - 1)

(***************************************************************************)
(* C3.  In a traversal in which no query fails (no repository-page query   *)
(* and no webhook-page query), every item of every visited page is emitted *)
(* exactly once: never twice while it runs, and when it has returned the   *)
(* entities emitted for the organization are as many as the items of its   *)
(* pages, one per repository.                                              *)
(***************************************************************************)
C3_EmittedOncePerItem ==
    \A o \in world.orgs :
        (org[o].failures = 0 /\ NoHookQueryFails)
            => /\ \A name \in ReposOf(o) : EmittedCopies(name) <= 1
               /\ org[o].result = "ok"
                    => /\ \A name \in ReposOf(o) : EmittedCopies(name) = 1
                       /\ BagCardinality(EmittedOf(o)) = SumPageItems(o, org[o].cursor)
                       /\ ~HasNextPage(o, org[o].cursor)

C3_Witness ==
    \E o \in world.orgs :
        /\ org[o].result = "ok" /\ org[o].failures = 0 /\ NoHookQueryFails
        /\ NumPages(o) > 1
        /\ BagCardinality(EmittedOf(o)) = NumPages(o) * PageSize

\* the invocations of each traversal against its failures and its result
C4_Counts ==
    \A o \in world.orgs :
        /\ org[o].invocations <= 5
        /\ org[o].result = "ok"
             => org[o].failures < 5 /\ org[o].invocations = org[o].failures + 1
        /\ org[o].result = "err"
             => org[o].failures = 5 /\ org[o].invocations = 5
        /\ (org[o].pc = "done" /\ org[o].failures = 5) => org[o].result = "err"
        /\ org[o].pc = "start" => org[o].invocations = org[o].failures

(***************************************************************************)
(* C4.  Retry re-invokes the traversal until it succeeds or 5 attempts are *)
(* used up: a traversal that fails k < 5 times and then succeeds was       *)
(* invoked k + 1 times, one that always fails was invoked 5 times, and a   *)
(* traversal is never invoked again once an attempt succeeded.             *)
(***************************************************************************)
C4_RetryAttempts ==
    /\ []C4_Counts
    /\ [][\A o \in world.orgs :
            org[o].result = "ok" => org'[o].invocations = org[o].invocations]_vars

C4_Witness ==
    \E o \in world.orgs :
        org[o].result = "ok" /\ org[o].failures = 2 /\ org[o].invocations = 3


\* the passes over the repository in which GetBranchProtection was called
BPCalled(name) == Calls(name, "bp") >= 1

\* the repository records that left enrichment: in units past it, and emitted
EnrichedRecords(name) ==
    {u.repo : u \in {v \in UnitStates : v.repo.name = name /\ v.pc \in {"emit", "count"}}}
        \cup {e.repo : e \in {f \in BagToSet(emitted) : f.repo.name = name}}

\* every pass that called GetBranchProtection went on to emission:
\* it has emitted the repository or does so with its next step
BPPassesEmit(name) ==
    ~closed => Calls(name, "bp") = UnitsAt(name, "emit") + EmittedCopies(name)

\* the repository left enrichment unflagged, without a rule, and goes on to emission
C5_NotProtectedAbsent(name) ==
    /\ \A r \in EnrichedRecords(name) : r.branch # "rule" /\ ~r.noBPPerm
    /\ BPPassesEmit(name)

(***************************************************************************)
(* C5.  As claimed: a resource whose branch-protection call answers        *)
(* "branch not protected" goes on to emission with no protection rule and  *)
(* the permission-denied flag false, and no MissingPermission record at    *)
(* all exists about it.                                                    *)
(***************************************************************************)
C5_NotProtectedNoRecordAtAll ==
    \A name \in AllRepos :
        (world.sc.bp = "NotProtected" /\ BPCalled(name))
            => /\ C5_NotProtectedAbsent(name)
               /\ PermCopies(name) = 0

(***************************************************************************)
(* C5, amended.  Such a resource goes on to emission with no protection    *)
(* rule and the permission-denied flag false, and no MissingPermission     *)
(* record about branch protection (capability RepoAdmin) exists about it;  *)
(* the webhook stage may still have recorded its own.                      *)
(***************************************************************************)
C5_NotProtectedNoBPRecord ==
    \A name \in AllRepos :
        (world.sc.bp = "NotProtected" /\ BPCalled(name))
            => /\ C5_NotProtectedAbsent(name)
               /\ PermCopiesWith(name, noBranchProtectionEffect) = 0
               /\ PermCopiesWith(name, orgIsFreeEffect) = 0

C5_Witness ==
    \E name \in AllRepos :
        /\ world.sc.bp = "NotProtected" /\ BPCalled(name)
        /\ EmittedCopies(name) = 1
        /\ PermCopiesWith(name, hooksEffect) = 1
        /\ Finished

\* the repository left enrichment flagged, without a rule, and goes on to emission
C6_NotFoundFlagged(name) ==
    /\ \A r \in EnrichedRecords(name) : r.branch # "rule" /\ r.noBPPerm
    /\ BPPassesEmit(name)

C7_FreePrivateOnePlanRecord ==
    \A name \in AllRepos :
        (world.sc.free /\ world.sc.private)
            => /\ Calls(name, "bp") = 0
               /\ PermCopiesWith(name, orgIsFreeEffect) <= 1
               /\ (Finished /\ org[name[1]].result = "ok" /\ NoHookPanic)
                    => PermCopiesWith(name, orgIsFreeEffect) = 1

(***************************************************************************)
(* C8.  No failure of an enrichment stage drops a resource: when the run   *)
(* is over, every repository of a traversal that succeeded is in the       *)
(* snapshot, whatever the outcomes of the vulnerability-alerts, webhook,   *)
(* collaborators, branch-protection and score stages, and each failed      *)
(* stage's field is absent.                                                *)
(***************************************************************************)
C8_NeverDropped ==
    \A o \in world.orgs :
        (Finished /\ org[o].result = "ok")
            => \A name \in ReposOf(o) :
                /\ EmittedCopies(name) >= 1
                /\ \A r \in EnrichedRecords(name) :
                    /\ world.sc.vuln = "err" => ~r.vuln
                    /\ ~NoHookQueryFails => ~r.hooks.present
                    /\ world.sc.collab = "err" => ~r.collab
                    /\ world.sc.score = "err" => ~r.scorecard

(***************************************************************************)
(* C9.  If the discovery of the organizations fails, Collect issues no     *)
(* repository query, emits no entity, no MissingPermission record and no   *)
(* processed-count update, and its closure has returned, so that the       *)
(* output is closed or about to be; CollectMetadata returns a total of 0   *)
(* without issuing any count query.                                        *)
(***************************************************************************)
C9_DiscoveryFailureIsEmpty ==
    /\ discovery = "failed"
         => /\ ~queried /\ \A o \in Orgs : org[o].invocations = 0
            /\ units = EmptyBag /\ apiCalls = EmptyBag
            /\ emitted = EmptyBag /\ missingPerms = EmptyBag
            /\ totalChanges = 0 /\ processed = 0
            /\ cpc = "returned"
            /\ closed \/ ENABLED Close
    /\ mdiscovery = "failed"
         => /\ mpc = "returned" /\ metadata = 0
            /\ ~countQueried /\ \A o \in Orgs : munit[o].pc = "idle"

C9_Witness == discovery = "failed" /\ closed /\ emitted = EmptyBag

\* the sum of the repository counts of the organizations in S
RECURSIVE SumCounts(_)
SumCounts(S) ==
    IF S = {} THEN 0
    ELSE LET o == CHOOSE x \in S : TRUE IN TotalCountOf(o) + SumCounts(S \ {o})

(***************************************************************************)
(* C10.  CollectMetadata returns the sum of the repository counts of the   *)
(* organizations whose count query succeeded, under every interleaving of  *)
(* the count units, and records no MissingPermission.                      *)
(***************************************************************************)
C10_TotalIsSum ==
    mpc = "returned"
        => /\ metadata = SumCounts({o \in world.orgs : munit[o].ok})
           /\ missingPerms = EmptyBag

(***************************************************************************)
(* C11.  The run always completes: when every transport call returns and   *)
(* every repository list has finitely many pages, a Collect that was       *)
(* started finishes and closes its output, whichever repository queries    *)
(* and enrichment calls fail.                                              *)
(***************************************************************************)
C11_CollectCompletes == (cpc # "idle") ~> closed

C11_Witness ==
    /\ closed /\ discovery = "ok"
    /\ faults >= RetryCap
    /\ \E o \in world.orgs : org[o].result = "err"
    /\ world.sc.collab = "err" /\ world.sc.vuln = "err"

\* the item units spawned by the traversals of organization o still running
RunningUnitsOf(o) == {u \in UnitStates : u.org = o}

\* the traversal of o is not inside collectRepositories: it has not been
\* invoked yet or its last invocation has returned
TraversalReturned(o) == org[o].pc \in {"start", "done"}

(***************************************************************************)
(* C12.  Every fan-out has its wait-all: whenever a traversal has returned, *)
(* with success or with an error, no page unit or item unit it spawned is  *)
(* still running; hence once Collect's outer wait has returned no unit is  *)
(* running, and nothing is emitted, recorded or counted after that.        *)
(***************************************************************************)
C12_FanInBeforeReturn ==
    /\ \A o \in world.orgs : TraversalReturned(o) => RunningUnitsOf(o) = {}
    /\ cpc = "returned" => units = EmptyBag

\* the item units that have emitted their entity and not yet counted it
UnitsAboutToCount == CountIn(units, LAMBDA u : u.pc = "count")

(***************************************************************************)
(* C13.  The processed-count is incremented exactly once per item, after   *)
(* the item's emission, and no increment is lost: while the collection     *)
(* runs every emitted entity is counted or is counted by its unit's next   *)
(* step, and when the collection is complete (the output is closed) the    *)
(* processed-count equals the number of entities emitted.                  *)
(***************************************************************************)
C13_ProcessedEqualsEmitted ==
    /\ ~closed => processed + UnitsAboutToCount = BagCardinality(emitted)
    /\ closed => processed = BagCardinality(emitted)

\* the traversal of o is about to issue a page query only at the start of an
\* attempt or after a response that announced a next page
C14_QueryOnlyWithMore ==
    \A o \in world.orgs :
        /\ org[o].cursor \in 0 .. NumPages(o)
        /\ org[o].pc = "query" => (org[o].cursor = 0 \/ HasNextPage(o, org[o].cursor))
        /\ org[o].pc = "wait" => (org[o].cursor > 0 /\ ~HasNextPage(o, org[o].cursor))

\* a step of the traversal of o: an attempt starts with the nil cursor; a
\* response is an answer to the one query of the attempt, issued with the
\* cursor of the response before it, and moves the cursor to its own end
C14_CursorStep ==
    \A o \in world.orgs :
        /\ org'[o].invocations # org[o].invocations
             => /\ org'[o].invocations = org[o].invocations + 1
                /\ org'[o].cursor = 0 /\ org'[o].pc = "query"
        /\ (org'[o].invocations = org[o].invocations /\ org'[o].cursor # org[o].cursor)
             => /\ org[o].pc = "query"
                /\ org'[o].cursor = org[o].cursor + 1
                /\ \A i \in 1 .. PageSize :
                     \E u \in BagToSet(units') : u.org = o /\ u.page = org'[o].cursor /\ u.idx = i
        /\ org'[o].failures # org[o].failures
             => /\ org[o].pc = "query" /\ org'[o].pc \in {"start", "done"}
                /\ org'[o].cursor = org[o].cursor
        /\ org[o].pc # "query"
             => /\ org'[o].cursor \in {org[o].cursor, 0}
                /\ org'[o].failures = org[o].failures

(***************************************************************************)
(* C14.  Within one attempt the page queries are strictly sequential: the  *)
(* first query of every attempt, retries included, uses the nil cursor;    *)
(* each later query uses the end cursor of the response before it in the   *)
(* same attempt; the attempt has one query at a time; and no query follows *)
(* a response that announced no next page.                                 *)
(***************************************************************************)
C14_SequentialPages == []C14_QueryOnlyWithMore /\ [][C14_CursorStep]_vars

C14_Witness ==
    \E o \in world.orgs :
        /\ org[o].invocations = 2 /\ org[o].failures = 1
        /\ org[o].pc = "wait" /\ org[o].cursor = 2

\* the step in which a page query of o returns an error
C15_ErrorStep(o) == org'[o].failures # org[o].failures

\* the units of page p of organization o, running or not
UnitsOfPage(B, o, p) == CountIn(B, LAMBDA u : u.org = o /\ u.page = p)

(***************************************************************************)
(* C15.  On the first page query that returns an error the attempt stops   *)
(* and returns that error at once: the attempt has left the query loop (it *)
(* is back in Retry, which invokes it again from the nil cursor or gives   *)
(* up with the error), no page unit is spawned for the failed query, and   *)
(* the failed page is not queried again by the loop itself.                *)
(***************************************************************************)
C15_StopsOnFirstError ==
    [][\A o \in world.orgs :
        /\ C15_ErrorStep(o)
             => /\ org[o].pc = "query"
                /\ org'[o].failures = org[o].failures + 1
                /\ org'[o].pc \in {"start", "done"}
                /\ org'[o].pc = "done" => org'[o].result = "err"
                /\ org'[o].invocations = org[o].invocations
                /\ BagCardinality(units') = BagCardinality(units)
                /\ UnitsOfPage(units', o, PageAfter(org[o].cursor))
                     = UnitsOfPage(units, o, PageAfter(org[o].cursor))
        /\ (org[o].pc = "start" /\ org'[o] # org[o])
             => org'[o].pc = "query" /\ org'[o].cursor = 0]_vars

C15_Witness ==
    \E o \in world.orgs :
        /\ org[o].pc = "start" /\ org[o].failures = 1 /\ org[o].cursor = 1
        /\ UnitsOfPage(units, o, 1) = PageSize /\ UnitsOfPage(units, o, 2) = 0

(***************************************************************************)
(* C16.  The traversal does not wait for the processing of page N before   *)
(* it fetches page N+1: a traversal inside its query loop can always have  *)
(* its next query answered, whatever item units are running, and it joins  *)
(* on its page units only after the last page has been fetched.            *)
(***************************************************************************)
C16_FetchDoesNotWait ==
    \A o \in world.orgs :
        /\ org[o].pc = "query" => (ENABLED QueryOK(o) /\ ~ENABLED WaitPages(o))
        /\ org[o].pc = "wait" => ~HasNextPage(o, org[o].cursor)
        /\ ENABLED WaitPages(o) => RunningUnitsOf(o) \subseteq {u \in UnitStates : ~u.live}

\* the query for page 2 was answered while the item units of page 1 of the
\* same attempt have not even started their enrichment
C16_Witness ==
    \E o \in world.orgs :
        /\ org[o].failures = 0 /\ org[o].cursor = 2
        /\ \E u \in UnitStates : u.org = o /\ u.page = 1 /\ u.live /\ u.pc = "enrich"
        /\ \E u \in UnitStates : u.org = o /\ u.page = 2

\* the branch-protection call is due for the repositories of this run: the
\* repository is not a private one of a free-plan organization, and it has a
\* default branch without a rule in the data already collected
BPCallDue == ~(world.sc.private /\ world.sc.free) /\ world.sc.branch = "noRule"

\* the calls of one pass over a repository, in the order the stages are run
StagesInOrder ==
    <<"vuln", "hooks", "collab">>
        \o (IF BPCallDue THEN <<"bp">> ELSE <<>>)
        \o (IF world.sc.scorecardEnabled THEN <<"score">> ELSE <<>>)

\* the calls the item unit u makes when it enriches its repository
CallsOfUnit(u) ==
    collectExtraData(ExtendedOrg(u.org, world.sc),
                     Node(u.org, u.page, u.idx, world.sc), world.sc).calls

(***************************************************************************)
(* C17.  For every resource the stages run in the order vulnerability      *)
(* alerts, webhooks, collaborators, branch protection, score, each one     *)
(* whether or not an earlier one failed; skipped are only branch           *)
(* protection for a private resource of a free-plan organization and the   *)
(* score when scoring is off (a branch-protection stage that needs no call *)
(* makes none).  A branch-protection error that is neither a missing       *)
(* permission nor "not protected" leaves the resource on its way to        *)
(* emission, unflagged, with no MissingPermission record about branch      *)
(* protection, after a single call.                                        *)
(***************************************************************************)
C17_StagesInOrderAllAttempted ==
    /\ \A u \in UnitStates : u.pc = "enrich" => CallsOfUnit(u) = StagesInOrder
    /\ \A name \in AllRepos :
        /\ Calls(name, "hooks") = Calls(name, "vuln")
        /\ Calls(name, "collab") = Calls(name, "vuln")
        /\ Calls(name, "bp") = (IF BPCallDue THEN Calls(name, "vuln") ELSE 0)
        /\ Calls(name, "score") = (IF world.sc.scorecardEnabled THEN Calls(name, "vuln") ELSE 0)
        /\ (world.sc.bp = "eOther" /\ BPCalled(name))
             => /\ \A r \in EnrichedRecords(name) : ~r.noBPPerm
                /\ BPPassesEmit(name)
                /\ PermCopiesWith(name, noBranchProtectionEffect) = 0
                /\ PermCopiesWith(name, orgIsFreeEffect) = 0

\* the repositories of this run have no default branch, or a default branch
\* with a branch-protection rule in the data already collected
NoBPCallNeeded == world.sc.branch \in {"nil", "rule"}

(***************************************************************************)
(* C18.  For a resource without a default branch, or whose default branch  *)
(* has a branch-protection rule in the data already collected, the         *)
(* branch-protection stage returns the resource unchanged and without      *)
(* error, makes no call and records no MissingPermission: no               *)
(* GetBranchProtection call is ever made for it, it is never flagged, and  *)
(* no record about unreadable branch protection exists about it.           *)
(***************************************************************************)
C18_NoCallWhenNotNeeded ==
    NoBPCallNeeded
        => /\ \A u \in UnitStates :
                fixBranchProtectionInfo(u.repo, u.org, world.sc)
                    = StageResult(u.repo, FALSE, <<>>, <<>>, FALSE)
           /\ \A name \in AllRepos :
                /\ Calls(name, "bp") = 0
                /\ PermCopiesWith(name, noBranchProtectionEffect) = 0
                /\ \A r \in EnrichedRecords(name) :
                        r.branch = world.sc.branch /\ ~r.noBPPerm

C18_Witness ==
    /\ world.sc.branch = "rule" /\ ~world.sc.private
    /\ \E name \in AllRepos :
        /\ EmittedCopies(name) = 1
        /\ Calls(name, "collab") = 1 /\ Calls(name, "bp") = 0
        /\ PermCopies(name) = 0

\* the MissingPermission records one pass over the repository issues
PermsPerPass(name) == Len(OnePass(name[1], name).perms)

\* the passes over the repository that are past enrichment and recording
PassesRecorded(name) ==
    EmittedCopies(name) + UnitsAt(name, "emit")

\* processed never exceeds emitted, and the records of every pass that has
\* emitted or is about to emit are recorded
C19_CountedAfterEmitted ==
    /\ processed <= BagCardinality(emitted)
    /\ \A name \in AllRepos :
        /\ UnitsAt(name, "count") <= EmittedCopies(name)
        /\ ~closed => PermCopies(name) >= PassesRecorded(name) * PermsPerPass(name)
        /\ PermCopies(name) >= EmittedCopies(name) * PermsPerPass(name)

\* the steps of an item unit: it records while it enriches, then emits, then counts
C19_UnitStep ==
    /\ missingPerms' # missingPerms
         => /\ emitted' = emitted /\ processed' = processed
            /\ \E u \in UnitStates : u.pc = "enrich"
    /\ emitted' # emitted
         => /\ processed' = processed /\ missingPerms' = missingPerms
            /\ \E u \in UnitStates :
                 /\ u.pc = "emit"
                 /\ emitted' = emitted (+) SetToBag({[org |-> u.org, repo |-> u.repo]})
    /\ processed' # processed
         => /\ processed' = processed + 1
            /\ emitted' = emitted /\ missingPerms' = missingPerms
            /\ UnitsAboutToCount >= 1

(***************************************************************************)
(* C19.  For each item the steps are ordered: enrich, record the item's    *)
(* MissingPermission records, emit the entity, increment the               *)
(* processed-count.  So in every reachable state the processed-count is at *)
(* most the number of entities emitted so far, and the MissingPermission   *)
(* records about a resource are recorded before its emission is counted.   *)
(***************************************************************************)
C19_ItemStepsOrdered == []C19_CountedAfterEmitted /\ [][C19_UnitStep]_vars

C19_Witness ==
    \E name \in AllRepos :
        /\ PermsPerPass(name) = 2
        /\ PermCopies(name) = 2 /\ EmittedCopies(name) = 1 /\ processed = 1
        /\ Finished

\* the webhook listing of this run fails on a page answered with status 404
HookFails404 == \E k \in 1 .. Len(world.sc.hooks) : world.sc.hooks[k] = "e404"

(***************************************************************************)
(* C20.  The webhook stage fills the hooks field only when every page of   *)
(* the listing was fetched (then with all the pages; a failure on any page *)
(* leaves the field absent); a pass records exactly one hook-read          *)
(* MissingPermission if the failed page was answered 404 and none          *)
(* otherwise; and whatever the failure, also one without an HTTP response, *)
(* the item unit goes on: every pass that listed the webhooks emits the    *)
(* resource.                                                               *)
(***************************************************************************)
C20_HooksStageNeverDrops ==
    \A name \in AllRepos :
        /\ \A r \in EnrichedRecords(name) :
            /\ r.hooks.present <=> NoHookQueryFails
            /\ r.hooks.pages = (IF NoHookQueryFails THEN Len(world.sc.hooks) ELSE 0)
        /\ PermCopiesWith(name, hooksEffect)
             = (IF HookFails404 THEN Calls(name, "hooks") ELSE 0)
        /\ ~closed => Calls(name, "hooks") = UnitsAt(name, "emit") + EmittedCopies(name)
        /\ (Finished /\ org[name[1]].result = "ok") => EmittedCopies(name) >= 1

=============================================================================
